---- MODULE Spec2Model ----
(***************************************************************************)
(* Model of the code point set type (unicode_regex/code_point_set.py), of  *)
(* the regex generator built on it (unicode_regex/regex_generator.py) and  *)
(* of the pattern optimizer (unicode_regex/optimizer.py), and of the       *)
(* string generator (regen/regex_generator.py).                            *)
(*                                                                         *)
(* A CodePointSet object is a name ("s", "t", "r") bound to a storage      *)
(* cell of the heap: the Python set object held in its _points attribute.  *)
(* Two objects share storage exactly when their _points attributes are the *)
(* same Python set object.                                                 *)
(*                                                                         *)
(* The code space [0, 0x10FFFF] of the source is scaled to                 *)
(* [0, MAX_CODE_POINT]; every comparison against 0x10FFFF in the source    *)
(* is a comparison against MAX_CODE_POINT here.                            *)
(***************************************************************************)
EXTENDS Integers, Sequences, FiniteSets, TLC

\* Upper end of the scaled code space (0x10FFFF in the source).
MAX_CODE_POINT == 6

VARIABLES
    heap,     \* storage cell -> the Python set object it holds
    ref,      \* object name -> the storage cell of its _points (0: unbound)
    last,     \* the last call on the set type and its outcome
    ra, rb,   \* two CodePointRange values
    rlast,    \* the last call on the range type and its outcome
    cache,    \* RegexGenerator._pattern_cache
    glast,    \* the last call on the generator and its outcome
    olast,    \* the last call on a pattern function and its outcome
    blast,    \* the last call of benchmark_pattern and its outcome
    plast,    \* the last call on the string generator and its outcome
    thr       \* thread -> its call of generate_pattern on the shared generator

setVars == <<heap, ref, last>>

rangeVars == <<ra, rb, rlast>>

genVars == <<cache, glast>>

optVars == <<olast>>

benchVars == <<blast>>

regenVars == <<plast>>

threadVars == <<thr>>

vars == <<heap, ref, last, ra, rb, rlast, cache, glast, olast, blast, plast, thr>>

(***************************************************************************)
(* Python values and helpers                                               *)
(***************************************************************************)

\* The names of the CodePointSet objects of a run.
Objects == {"s", "t", "r"}

\* The storage cells: one Python set object each. ref[o] = 0 when the name o
\* is not bound to an object.
Stores == 1..Cardinality(Objects)

Bound(rf, o) == rf[o] \in Stores

\* sorted(iterable): the ascending list of the elements of a set.
RECURSIVE sorted(_)
sorted(S) ==
    IF S = {} THEN <<>>
    ELSE LET m == CHOOSE x \in S : \A y \in S : x <= y
         IN <<m>> \o sorted(S \ {m})

\* range(start, stop) as the set of integers it iterates over.
range(start, stop) == start..(stop - 1)

\* The elements of a list.
Elems(q) == {q[i] : i \in 1..Len(q)}

(***************************************************************************)
(* CodePointSet: the methods as functions of the _points set               *)
(***************************************************************************)

\* add without validation (a mutation of add).
add_unchecked(points, code_point) ==
    [status |-> "ok", points |-> points \cup {code_point}]

\* CodePointSet.add
add(points, code_point) ==
    IF ~(0 <= code_point /\ code_point <= MAX_CODE_POINT)
    THEN [status |-> "ValueError", points |-> points]
    ELSE [status |-> "ok", points |-> points \cup {code_point}]

\* CodePointSet.add_range
add_range(points, start, end) ==
    IF ~(0 <= start /\ start <= end /\ end <= MAX_CODE_POINT)
    THEN [status |-> "ValueError", points |-> points]
    ELSE [status |-> "ok", points |-> points \cup range(start, end + 1)]

\* CodePointSet.remove
remove(points, code_point) == points \ {code_point}

\* CodePointSet.remove_range
remove_range(points, start, end) == points \ range(start, end + 1)

\* CodePointSet.__init__: add every element of the collection in iteration
\* order; the first invalid one raises and ends the construction.
RECURSIVE init_loop(_, _, _)
init_loop(points, code_points, i) ==
    IF i > Len(code_points) THEN [status |-> "ok", points |-> points]
    ELSE LET a == add(points, code_points[i])
         IN IF a.status # "ok" THEN a
            ELSE init_loop(a.points, code_points, i + 1)

__init__(code_points) == init_loop({}, code_points, 1)

\* get_ranges that also joins across a gap of one point (a mutation of
\* get_ranges_loop).
RECURSIVE get_ranges_loop_gap(_, _, _, _)
get_ranges_loop_gap(points, i, start, end) ==
    IF i > Len(points) THEN << <<start, end>> >>
    ELSE IF points[i] <= end + 2
         THEN get_ranges_loop_gap(points, i + 1, start, points[i])
         ELSE << <<start, end>> >> \o get_ranges_loop_gap(points, i + 1, points[i], points[i])

\* CodePointSet.get_ranges, the loop over points[1:].
RECURSIVE get_ranges_loop(_, _, _, _)
get_ranges_loop(points, i, start, end) ==
    IF i > Len(points) THEN << <<start, end>> >>
    ELSE IF points[i] = end + 1
         THEN get_ranges_loop(points, i + 1, start, points[i])
         ELSE << <<start, end>> >> \o get_ranges_loop(points, i + 1, points[i], points[i])

\* CodePointSet.get_ranges: the list of the pairs the generator yields.
get_ranges(pts) ==
    IF pts = {} THEN <<>>
    ELSE LET points == sorted(pts)
         IN get_ranges_loop(points, 2, points[1], points[1])

\* __invert__ that leaves out the last point of the code space (a mutation
\* of invert_points).
invert_points_short(pts) ==
    (0..(MAX_CODE_POINT - 1)) \ pts

\* CodePointSet.__invert__, the loop over sorted(self._points).
RECURSIVE invert_loop(_, _, _, _)
invert_loop(points, i, current, result) ==
    IF i > Len(points) THEN [current |-> current, result |-> result]
    ELSE LET point == points[i]
             filled == IF point > current
                       THEN add_range(result, current, point - 1).points
                       ELSE result
         IN invert_loop(points, i + 1, point + 1, filled)

invert_points(pts) ==
    LET l == invert_loop(sorted(pts), 1, 0, {})
    IN IF l.current <= MAX_CODE_POINT
       THEN add_range(l.result, l.current, MAX_CODE_POINT).points
       ELSE l.result

(***************************************************************************)
(* Operands and results of the set operators                               *)
(***************************************************************************)

\* What stands on the right of |, & and -: a CodePointSet object, or a raw
\* value of another type (a set, a list, an integer).
OperandTypes == {"CodePointSet", "set", "list", "int"}

Operand(type, obj) == [type |-> type, obj |-> obj]

\* other._points: only a CodePointSet has the attribute.
HasPoints(other) == other.type = "CodePointSet"

\* A new CodePointSet whose _points is a new Python set object (shares = {}),
\* or the set object of the storage cell in shares.
NewSet(pts) == [status |-> "ok", shares |-> {}, points |-> pts]

Raised(error) == [status |-> error, shares |-> {}, points |-> {}]

\* CodePointSet.__or__
__or__(h, self, other) ==
    IF ~HasPoints(other) THEN Raised("AttributeError")
    ELSE NewSet(h[self] \cup h[other.obj])

\* CodePointSet.__and__
__and__(h, self, other) ==
    IF ~HasPoints(other) THEN Raised("AttributeError")
    ELSE NewSet(h[self] \cap h[other.obj])

\* CodePointSet.__sub__
__sub__(h, self, other) ==
    IF ~HasPoints(other) THEN Raised("AttributeError")
    ELSE NewSet(h[self] \ h[other.obj])

\* CodePointSet.__invert__
__invert__(h, self) == NewSet(invert_points(h[self]))

\* copy that hands out the operand's own set object (a mutation of copy).
copy_shared(h, self) == [status |-> "ok", shares |-> {self}, points |-> h[self]]

\* CodePointSet.copy
copy(h, self) == NewSet(h[self])

\* x == y on CodePointSet objects: the class defines no __eq__, so Python
\* compares the identities of the two objects.
__eq__(x, y) == x = y

(***************************************************************************)
(* CodePointRange                                                          *)
(***************************************************************************)

\* CodePointRange(start, end): the dataclass and its __post_init__ check.
CodePointRange(start, end) ==
    IF ~(0 <= start /\ start <= end /\ end <= MAX_CODE_POINT)
    THEN [status |-> "ValueError", start |-> start, end |-> end]
    ELSE [status |-> "ok", start |-> start, end |-> end]

\* CodePointRange.__contains__
contains(self, code_point) == self.start <= code_point /\ code_point <= self.end

\* CodePointRange.overlaps
overlaps(self, other) == ~(self.end < other.start \/ other.end < self.start)

\* adjacent_to that looks to the right of self only (a mutation of
\* adjacent_to).
adjacent_to_right(self, other) == self.end + 1 = other.start

\* CodePointRange.adjacent_to
adjacent_to(self, other) ==
    self.end + 1 = other.start \/ other.end + 1 = self.start

\* min(a, b) and max(a, b)
min(a, b) == IF b < a THEN b ELSE a

max(a, b) == IF b > a THEN b ELSE a

\* CodePointRange.merge
merge(self, other) ==
    IF ~(overlaps(self, other) \/ adjacent_to(self, other))
    THEN [status |-> "ValueError", start |-> self.start, end |-> self.end]
    ELSE CodePointRange(min(self.start, other.start), max(self.end, other.end))

RangeCall(op, self, status, result, merged) ==
    [op |-> op, self |-> self, status |-> status, result |-> result, merged |-> merged]

NoRange == [start |-> 0, end |-> 0]

\* ra = CodePointRange(0, 0); rb = CodePointRange(0, 0)
RangeStart ==
    /\ ra = NoRange
    /\ rb = NoRange
    /\ rlast = RangeCall("none", "-", "ok", FALSE, NoRange)

(***************************************************************************)
(* RegexGenerator                                                          *)
(*                                                                         *)
(* A pattern is the list of the code points of its characters; chr(p) is   *)
(* the character p itself. The sets handed to the generator are given by   *)
(* their members, in the code space of the source (ASCII characters).      *)
(***************************************************************************)

\* The characters the patterns are made of.
BACKSLASH == 92

HYPHEN == 45

LBRACKET == 91

RBRACKET == 93

SPACE == 32

BAR == 124

\* '[]'
EMPTY_CLASS == <<LBRACKET, RBRACKET>>

\* RegexGenerator._needs_escape: char in '.^$*+?{}[]\\|()'
_needs_escape(char) ==
    char \in {46, 94, 36, 42, 43, 63, 123, 125, 91, 93, 92, 124, 40, 41}

\* re.escape of one character: the characters of
\* '()[]{}?*+-|^$\\.&~# \t\n\r\v\f' get a backslash.
re_escape(char) ==
    IF char \in {40, 41, 91, 93, 123, 125, 63, 42, 43, 45, 124, 94, 36, 92,
                 46, 38, 126, 35, 32, 9, 10, 13, 11, 12}
    THEN <<BACKSLASH, char>>
    ELSE <<char>>

\* char = chr(point); re.escape(char) if self._needs_escape(char) else char
char_pattern(point) ==
    IF _needs_escape(point) THEN re_escape(point) ELSE <<point>>

\* sep.join(patterns)
RECURSIVE join(_, _)
join(sep, patterns) ==
    IF patterns = <<>> THEN <<>>
    ELSE IF Len(patterns) = 1 THEN patterns[1]
    ELSE patterns[1] \o sep \o join(sep, Tail(patterns))

\* RegexGenerator._get_ranges, the loop over points[1:].
RECURSIVE _get_ranges_loop(_, _, _, _, _)
_get_ranges_loop(points, i, start, prev, ranges) ==
    IF i > Len(points) THEN Append(ranges, <<start, prev>>)
    ELSE IF points[i] # prev + 1
         THEN _get_ranges_loop(points, i + 1, points[i], points[i],
                               Append(ranges, <<start, prev>>))
         ELSE _get_ranges_loop(points, i + 1, start, points[i], ranges)

\* RegexGenerator._get_ranges
_get_ranges(code_points) ==
    IF code_points = {} THEN <<>>
    ELSE LET points == sorted(code_points)
         IN _get_ranges_loop(points, 2, points[1], points[1], <<>>)

\* The pattern of one range inside a class (the body of the for loop).
range_pattern(start, end, prioritize) ==
    IF start = end THEN char_pattern(start)
    ELSE IF prioritize = "readability"
         THEN char_pattern(start) \o <<SPACE, HYPHEN, SPACE>> \o char_pattern(end)
         ELSE char_pattern(start) \o <<HYPHEN>> \o char_pattern(end)

\* _ranges_to_pattern that ignores the priority (a mutation of
\* _ranges_to_pattern).
_ranges_to_pattern_size(ranges, prioritize) ==
    IF ranges = <<>> THEN EMPTY_CLASS
    ELSE IF Len(ranges) = 1 /\ ranges[1][1] = ranges[1][2]
         THEN char_pattern(ranges[1][1])
         ELSE <<LBRACKET>>
              \o join(<<>>, [i \in 1..Len(ranges) |->
                                range_pattern(ranges[i][1], ranges[i][2], "size")])
              \o <<RBRACKET>>

\* RegexGenerator._ranges_to_pattern
_ranges_to_pattern(ranges, prioritize) ==
    IF ranges = <<>> THEN EMPTY_CLASS
    ELSE IF Len(ranges) = 1 /\ ranges[1][1] = ranges[1][2]
         THEN char_pattern(ranges[1][1])
         ELSE LET patterns == [i \in 1..Len(ranges) |->
                                 range_pattern(ranges[i][1], ranges[i][2], prioritize)]
              IN IF Len(patterns) = 1
                 THEN <<LBRACKET>> \o patterns[1] \o <<RBRACKET>>
                 ELSE IF prioritize = "readability"
                      THEN <<LBRACKET>> \o join(<<SPACE, BAR, SPACE>>, patterns)
                               \o <<RBRACKET>>
                      ELSE <<LBRACKET>> \o join(<<>>, patterns) \o <<RBRACKET>>

\* RegexGenerator.COMMON_RANGES, in the order of the dict: the pattern, the
\* identity of the CodePointSet object and its members.
COMMON_RANGES ==
    << [pattern |-> <<BACKSLASH, 100>>, id |-> "digit",
        points |-> range(48, 58)],
       [pattern |-> <<BACKSLASH, 119>>, id |-> "word",
        points |-> range(48, 58) \cup range(65, 91) \cup range(97, 123) \cup {95}],
       [pattern |-> <<BACKSLASH, 115>>, id |-> "space",
        points |-> {32, 9, 10, 11, 12, 13}] >>

\* A set handed to the generator: the identity of the object ("user" for a
\* set built by the caller) and its members.
CodePoints(id, points) == [id |-> id, points |-> points]

\* self._pattern_cache[cache_key] = pattern
CachePut(c, cache_key, pattern) ==
    [k \in DOMAIN c \cup {cache_key} |-> IF k = cache_key THEN pattern ELSE c[k]]

\* The first pattern of COMMON_RANGES whose set compares equal to the
\* input, as the for loop finds it; <<>> when there is none.
RECURSIVE common_loop(_, _)
common_loop(code_points, i) ==
    IF i > Len(COMMON_RANGES) THEN <<>>
    ELSE IF __eq__(code_points.id, COMMON_RANGES[i].id)
         THEN <<COMMON_RANGES[i].pattern>>
         ELSE common_loop(code_points, i + 1)

\* RegexGenerator.generate_pattern: the outcome ("ok": the call returns; no
\* path of the method raises), the pattern returned and the cache after the
\* call.
generate_pattern(c, code_points, prioritize) ==
    IF code_points.points = {}
    THEN [status |-> "ok", pattern |-> EMPTY_CLASS, cache |-> c]
    ELSE LET cache_key == <<code_points.points, prioritize>>
         IN IF cache_key \in DOMAIN c
            THEN [status |-> "ok", pattern |-> c[cache_key], cache |-> c]
            ELSE LET common == common_loop(code_points, 1)
                     pattern == IF common # <<>> THEN common[1]
                                ELSE _ranges_to_pattern(
                                         _get_ranges(code_points.points), prioritize)
                 IN [status |-> "ok", pattern |-> pattern,
                     cache |-> CachePut(c, cache_key, pattern)]

GenCall(op, code_points, prioritize, status, pattern) ==
    [op |-> op, code_points |-> code_points, prioritize |-> prioritize,
     status |-> status, pattern |-> pattern]

\* self._pattern_cache = {}
EmptyCache == [k \in {} |-> <<>>]

\* generator = RegexGenerator()
GenStart ==
    /\ cache = EmptyCache
    /\ glast = GenCall("none", CodePoints("user", {}), "size", "ok", <<>>)

\* '0123456789abcdef'[d]
hexdigit(d) == IF d < 10 THEN 48 + d ELSE 87 + d

\* f"{cp:0{width}x}": lower-case hexadecimal, zero-padded to width digits.
RECURSIVE hex(_, _)
hex(cp, width) ==
    IF width <= 1 /\ cp < 16 THEN <<hexdigit(cp)>>
    ELSE Append(hex(cp \div 16, width - 1), hexdigit(cp % 16))

\* RegexGenerator.SPECIAL_CHARS: frozenset('.^$*+?{}[]\\|()-')
SPECIAL_CHARS ==
    {46, 94, 36, 42, 43, 63, 123, 125, 91, 93, 92, 124, 40, 41, 45}

\* RegexGenerator._escape_char
_escape_char(char) ==
    IF char \in SPECIAL_CHARS THEN <<BACKSLASH, char>> ELSE <<char>>

\* RegexGenerator._format_code_point: 0xFFFF is 65535, 'u' is 117 and 'U'
\* is 85.
_format_code_point(cp, use_hex) ==
    IF cp < 128 /\ ~use_hex THEN _escape_char(cp)
    ELSE IF cp <= 65535 THEN <<BACKSLASH, 117>> \o hex(cp, 4)
    ELSE <<BACKSLASH, 85>> \o hex(cp, 8)

RPAREN == 41

\* '(?:'
GROUP_OPEN == <<40, 63, 58>>

\* generate_alternation_pattern that never wraps the alternatives in a group
\* (a mutation of generate_alternation_pattern).
generate_alternation_pattern_bare(patterns, prioritize) ==
    IF patterns = <<>> THEN EMPTY_CLASS
    ELSE IF Len(patterns) = 1 THEN patterns[1]
    ELSE join(<<BAR>>, patterns)

\* RegexGenerator.generate_alternation_pattern
generate_alternation_pattern(patterns, prioritize) ==
    IF patterns = <<>> THEN EMPTY_CLASS
    ELSE IF Len(patterns) = 1 THEN patterns[1]
    ELSE IF prioritize = "readability"
         THEN GROUP_OPEN \o join(<<SPACE, BAR, SPACE>>, patterns) \o <<RPAREN>>
         ELSE join(<<BAR>>, patterns)

(***************************************************************************)
(* Optimizer (unicode_regex/optimizer.py)                                  *)
(*                                                                         *)
(* A pattern is the list of the code points of its characters, as in the   *)
(* generator.                                                              *)
(***************************************************************************)

\* s.startswith(prefix)
startswith(s, prefix) ==
    Len(s) >= Len(prefix) /\ SubSeq(s, 1, Len(prefix)) = prefix

\* s.endswith(suffix)
endswith(s, suffix) ==
    Len(s) >= Len(suffix) /\ SubSeq(s, Len(s) - Len(suffix) + 1, Len(s)) = suffix

\* The first position from i at which sub occurs in s; 0 when there is none.
RECURSIVE find(_, _, _)
find(s, sub, i) ==
    IF i + Len(sub) - 1 > Len(s) THEN 0
    ELSE IF SubSeq(s, i, i + Len(sub) - 1) = sub THEN i
    ELSE find(s, sub, i + 1)

\* sub in s
occurs(sub, s) == find(s, sub, 1) # 0

\* s.split(sep)
RECURSIVE split(_, _)
split(s, sep) ==
    LET i == find(s, sep, 1)
    IN IF i = 0 THEN <<s>>
       ELSE <<SubSeq(s, 1, i - 1)>> \o split(SubSeq(s, i + Len(sep), Len(s)), sep)

RECURSIVE lstrip(_, _)
lstrip(s, chars) ==
    IF s # <<>> /\ Head(s) \in chars THEN lstrip(Tail(s), chars) ELSE s

RECURSIVE rstrip(_, _)
rstrip(s, chars) ==
    IF s # <<>> /\ s[Len(s)] \in chars
    THEN rstrip(SubSeq(s, 1, Len(s) - 1), chars)
    ELSE s

\* s.strip(chars)
strip(s, chars) == rstrip(lstrip(s, chars), chars)

\* sorted(code_points) of a list: ascending, repeated elements kept.
RECURSIVE sorted_list(_)
sorted_list(q) ==
    IF q = <<>> THEN <<>>
    ELSE LET m == CHOOSE x \in Elems(q) : \A y \in Elems(q) : x <= y
             i == CHOOSE j \in 1..Len(q) : q[j] = m
         IN <<m>> \o sorted_list(SubSeq(q, 1, i - 1) \o SubSeq(q, i + 1, Len(q)))

\* Optimizer.compress_ranges, the loop over points[1:] and the last append.
RECURSIVE compress_ranges_loop(_, _, _, _, _)
compress_ranges_loop(points, i, start, prev, ranges) ==
    IF i > Len(points) THEN Append(ranges, <<start, prev>>)
    ELSE IF points[i] # prev + 1
         THEN compress_ranges_loop(points, i + 1, points[i], points[i],
                                   Append(ranges, <<start, prev>>))
         ELSE compress_ranges_loop(points, i + 1, start, points[i], ranges)

\* Optimizer.compress_ranges; code_points is the collection as the list of
\* the elements it iterates over.
compress_ranges(code_points) ==
    IF code_points = <<>> THEN <<>>
    ELSE LET points == sorted_list(code_points)
         IN compress_ranges_loop(points, 2, points[1], points[1], <<>>)

\* Optimizer.minimize_pattern
minimize_pattern(pattern) ==
    IF pattern = <<>> THEN pattern
    ELSE LET class == SubSeq(pattern, 2, Len(pattern) - 1)
             group == SubSeq(pattern, 4, Len(pattern) - 1)
             parts == split(pattern, <<RBRACKET, LBRACKET>>)
         IN IF /\ startswith(pattern, <<LBRACKET>>)
               /\ endswith(pattern, <<RBRACKET>>)
               /\ Len(class) = 1
               /\ ~startswith(class, <<BACKSLASH>>)
            THEN class
            ELSE IF /\ startswith(pattern, GROUP_OPEN)
                    /\ endswith(pattern, <<RPAREN>>)
                    /\ ~occurs(<<BAR>>, group)
            THEN group
            ELSE IF /\ occurs(<<RBRACKET, LBRACKET>>, pattern)
                    /\ \A i \in 2..Len(parts) : startswith(parts[i], <<LBRACKET>>)
                    /\ \A i \in 1..(Len(parts) - 1) : endswith(parts[i], <<RBRACKET>>)
            THEN <<LBRACKET>>
                 \o join(<<>>, [i \in 1..Len(parts) |->
                                   strip(parts[i], {LBRACKET, RBRACKET})])
                 \o <<RBRACKET>>
            ELSE pattern

\* Optimizer.optimize_readability, the loop over the characters.
RECURSIVE optimize_readability_loop(_, _, _, _)
optimize_readability_loop(pattern, i, in_class, result) ==
    IF i > Len(pattern) THEN result
    ELSE LET c == pattern[i]
         IN IF c = LBRACKET
            THEN optimize_readability_loop(pattern, i + 1, TRUE, Append(result, c))
            ELSE IF c = RBRACKET
            THEN optimize_readability_loop(pattern, i + 1, FALSE, Append(result, c))
            ELSE IF c = BAR /\ ~in_class
            THEN LET before == IF i > 1 /\ pattern[i - 1] # SPACE
                               THEN <<SPACE>> ELSE <<>>
                     after  == IF i < Len(pattern) /\ pattern[i + 1] # SPACE
                               THEN <<SPACE>> ELSE <<>>
                 IN optimize_readability_loop(pattern, i + 1, in_class,
                                              result \o before \o <<c>> \o after)
            ELSE optimize_readability_loop(pattern, i + 1, in_class,
                                           Append(result, c))

\* optimize_readability that trims the spaces at both ends of its result (a
\* mutation of optimize_readability).
optimize_readability_trim(pattern) ==
    IF pattern = <<>> THEN pattern
    ELSE strip(optimize_readability_loop(pattern, 1, FALSE, <<>>), {SPACE})

\* Optimizer.optimize_readability
optimize_readability(pattern) ==
    IF pattern = <<>> THEN pattern
    ELSE optimize_readability_loop(pattern, 1, FALSE, <<>>)

\* optimize_pattern without the readability pass (a mutation of
\* optimize_pattern).
optimize_pattern_size(pattern, prioritize) ==
    IF prioritize \notin {"size", "readability"}
    THEN [status |-> "ValueError", result |-> <<>>]
    ELSE [status |-> "ok", result |-> minimize_pattern(pattern)]

\* Optimizer.optimize_pattern: the outcome and the pattern returned.
optimize_pattern(pattern, prioritize) ==
    IF prioritize \notin {"size", "readability"}
    THEN [status |-> "ValueError", result |-> <<>>]
    ELSE LET result == minimize_pattern(pattern)
         IN [status |-> "ok",
             result |-> IF prioritize = "readability"
                        THEN optimize_readability(result)
                        ELSE result]

\* Optimizer.optimize
optimize(pattern) ==
    IF pattern = <<>> THEN pattern
    ELSE optimize_readability(minimize_pattern(pattern))

\* A call on a pattern function: the function, its argument (a pattern, or
\* the code points handed to compress_ranges), the priority handed over
\* ("-" when the function takes none), the outcome and the pattern
\* returned. The list of patterns handed to generate_alternation_pattern
\* and the list of ranges compress_ranges returns have fields of their own.
OptCall(op, arg, prioritize, status, result) ==
    [op |-> op, arg |-> arg, patterns |-> <<>>, prioritize |-> prioritize,
     status |-> status, result |-> result, ranges |-> <<>>]

\* optimizer = Optimizer(): no call yet.
OptStart == olast = OptCall("none", <<>>, "-", "ok", <<>>)

\* The dict benchmark_pattern returns: whether it has the key 'error', its
\* 'pattern_size', whether it has the key 'avg_match_time' (a measured
\* time, of which only the presence is kept) and its 'iterations'.
BenchResult(error, pattern_size, avg_match_time, iterations) ==
    [error |-> error, pattern_size |-> pattern_size,
     avg_match_time |-> avg_match_time, iterations |-> iterations]

\* No dict: the call raised, or there was no call.
NoResult == BenchResult(FALSE, 0, FALSE, 0)

\* A call of benchmark_pattern: its arguments, the outcome ("ok" or the
\* exception that leaves the method) and the dict returned.
BenchCall(op, pattern, test_string, iterations, status, result) ==
    [op |-> op, pattern |-> pattern, test_string |-> test_string,
     iterations |-> iterations, status |-> status, result |-> result]

\* No call of benchmark_pattern yet.
BenchStart == blast = BenchCall("none", <<>>, <<>>, 0, "ok", NoResult)

\* A call on the string generator: the function, the strings handed over
\* and the pattern returned.
RegenCall(op, strings, result) ==
    [op |-> op, strings |-> strings, result |-> result]

\* gen = RegexGenerator() of regen: no call yet.
RegenStart == plast = RegenCall("none", <<>>, <<>>)

\* The threads that share one generator.
MaxThreads == 2

Threads == 1..MaxThreads

\* A thread's call of generate_pattern: the line it is at ("idle" before
\* its first call, "done" after a return), its arguments, its local
\* variable pattern (the value returned once it is done) and the outcome.
ThreadCall(pc, code_points, prioritize, pattern, status) ==
    [pc |-> pc, code_points |-> code_points, prioritize |-> prioritize,
     pattern |-> pattern, status |-> status]

\* No thread has called the generator yet.
ThreadStart ==
    thr = [t \in Threads |-> ThreadCall("idle", CodePoints("user", {}), "size",
                                         <<>>, "ok")]

(***************************************************************************)
(* Inputs                                                                  *)
(***************************************************************************)

\* The code points handed to add and remove, per object: points inside the
\* code space, its two ends, and the first integers outside it.
PointArgs(o) ==
    CASE o = "s" -> {-1, 0, MAX_CODE_POINT, MAX_CODE_POINT + 1}
      [] o = "t" -> {1, 2}
      [] OTHER   -> {1}

\* The (start, end) pairs handed to add_range and remove_range.
RangeArgs(o) ==
    IF o = "s"
    THEN {<<2, MAX_CODE_POINT>>, <<MAX_CODE_POINT, 2>>, <<-1, 0>>,
          <<MAX_CODE_POINT, MAX_CODE_POINT + 1>>}
    ELSE {}

\* The collections handed to the constructor, in iteration order.
Collections ==
    {<<>>, <<2, 0>>, <<1, 1>>, <<0, -1, 2>>, <<MAX_CODE_POINT + 1>>}

\* The right operands of |, & and -.
Operands(rf) ==
    {Operand("CodePointSet", o) : o \in {x \in {"t"} : Bound(rf, x)}}
        \cup {Operand(ty, "-") : ty \in OperandTypes \ {"CodePointSet"}}

NoOperand == Operand("-", "-")

\* The most tokens of a pattern built from Tokens.
MaxTokens == 3

\* The pieces patterns are built from: [ ] (?: ) | \ a and the space.
Tokens ==
    {<<LBRACKET>>, <<RBRACKET>>, GROUP_OPEN, <<RPAREN>>, <<BAR>>, <<BACKSLASH>>,
     <<97>>, <<SPACE>>}

\* The patterns of the examples of the optimizer and of its tests.
ExamplePatterns ==
    {
      \* [a]
      <<91, 97, 93>>,
      \* [a-z]
      <<91, 97, 45, 122, 93>>,
      \* [abc]
      <<91, 97, 98, 99, 93>>,
      \* (?:abc)
      <<40, 63, 58, 97, 98, 99, 41>>,
      \* (?:abc|def)
      <<40, 63, 58, 97, 98, 99, 124, 100, 101, 102, 41>>,
      \* [a-z][0-9]
      <<91, 97, 45, 122, 93, 91, 48, 45, 57, 93>>,
      \* [a][b]
      <<91, 97, 93, 91, 98, 93>>,
      \* [a][b][c]
      <<91, 97, 93, 91, 98, 93, 91, 99, 93>>,
      \* \a
      <<92, 97>>,
      \* \[
      <<92, 91>>,
      \* \w
      <<92, 119>>,
      \* \d
      <<92, 100>>,
      \* (?:[a])
      <<40, 63, 58, 91, 97, 93, 41>>,
      \* [a]|[b]|[c-z]
      <<91, 97, 93, 124, 91, 98, 93, 124, 91, 99, 45, 122, 93>>,
      \* (?:abc)(?:def)
      <<40, 63, 58, 97, 98, 99, 41, 40, 63, 58, 100, 101, 102, 41>>,
      \* (?:[a-z])(?:\d)(?:[A-Z])
      <<40, 63, 58, 91, 97, 45, 122, 93, 41, 40, 63, 58, 92, 100, 41, 40, 63, 58, 91, 65, 45, 90, 93, 41>>,
      \* (?:[a|b])
      <<40, 63, 58, 91, 97, 124, 98, 93, 41>>,
      \* (?:a|b)
      <<40, 63, 58, 97, 124, 98, 41>>,
      \* [.]
      <<91, 46, 93>>,
      \* foo|bar
      <<102, 111, 111, 124, 98, 97, 114>>,
      \* foo | bar
      <<102, 111, 111, 32, 124, 32, 98, 97, 114>>,
      \* a|b|c
      <<97, 124, 98, 124, 99>>,
      \* [a|b]
      <<91, 97, 124, 98, 93>>,
      \* [a]][[b]
      <<91, 97, 93, 93, 91, 91, 98, 93>>,
      \* (?:[a-z])|(?:[0-9])
      <<40, 63, 58, 91, 97, 45, 122, 93, 41, 124, 40, 63, 58, 91, 48, 45, 57, 93, 41>>,
      \* (three spaces)
      <<32, 32, 32>>
    }

\* The lists of at most n elements of S, in every order and with
\* repetitions.
RECURSIVE Lists(_, _)
Lists(S, n) ==
    IF n = 0 THEN {<<>>}
    ELSE {<<>>} \cup {Append(q, x) : q \in Lists(S, n - 1), x \in S}

\* The patterns handed to the optimizer: every concatenation of at most
\* MaxTokens tokens, and the examples.
Patterns ==
    {join(<<>>, q) : q \in Lists(Tokens, MaxTokens)} \cup ExamplePatterns

\* The longest list handed to generate_alternation_pattern and to
\* compress_ranges.
MaxListLen == 3

\* The alternatives: a, bc and [d].
Alternatives == {<<97>>, <<98, 99>>, <<LBRACKET, 100, RBRACKET>>}

\* The lists of alternatives handed to generate_alternation_pattern.
AlternativeLists == Lists(Alternatives, MaxListLen)

\* A B C F
CompressSample == {65, 66, 67, 70}

\* The collections handed to compress_ranges, as the list of the elements
\* iterated over: a set has no repeated element, a list may have.
PointLists == Lists(CompressSample, MaxListLen)

(***************************************************************************)
(* State machine of the set type                                           *)
(***************************************************************************)

Call(op, target, self, other, args, status, result) ==
    [op |-> op, target |-> target, self |-> self, other |-> other,
     args |-> args, status |-> status, result |-> result]

\* The points of object o (the empty set for an unbound name).
Points(h, rf, o) == IF Bound(rf, o) THEN h[rf[o]] ELSE {}

\* A storage cell no object other than target refers to.
Fresh(rf, target) ==
    CHOOSE i \in Stores :
        /\ \A o \in Objects \ {target} : rf[o] # i
        /\ \A j \in Stores :
              (\A o \in Objects \ {target} : rf[o] # j) => i <= j

\* Cells no object refers to hold nothing.
Collect(h, rf) ==
    [i \in Stores |-> IF \E o \in Objects : rf[o] = i THEN h[i] ELSE {}]

\* target = <result>: the name is bound to the object an operation returned.
Bind(target, res) ==
    LET st  == IF res.shares = {} THEN Fresh(ref, target)
               ELSE CHOOSE x \in res.shares : TRUE
        rf2 == [ref EXCEPT ![target] = st]
        h2  == IF res.shares = {} THEN [heap EXCEPT ![st] = res.points] ELSE heap
    IN /\ ref' = rf2
       /\ heap' = Collect(h2, rf2)

\* s = CodePointSet(); t = CodePointSet()
SetStart ==
    /\ heap = [i \in Stores |-> {}]
    /\ ref = [o \in Objects |-> IF o = "s" THEN 1 ELSE IF o = "t" THEN 2 ELSE 0]
    /\ last = Call("none", "-", "-", NoOperand, <<>>, "ok", FALSE)

Init ==
    /\ SetStart /\ RangeStart /\ GenStart /\ OptStart
    /\ BenchStart /\ RegenStart /\ ThreadStart

\* o.add(p)
Add(o, p) ==
    /\ Bound(ref, o)
    /\ LET a == add(heap[ref[o]], p)
       IN /\ heap' = [heap EXCEPT ![ref[o]] = a.points]
          /\ last' = Call("add", o, o, NoOperand, <<p>>, a.status, FALSE)
    /\ UNCHANGED <<ref, rangeVars, genVars, optVars, benchVars, regenVars, threadVars>>

\* o.add_range(start, end)
AddRange(o, start, end) ==
    /\ Bound(ref, o)
    /\ LET a == add_range(heap[ref[o]], start, end)
       IN /\ heap' = [heap EXCEPT ![ref[o]] = a.points]
          /\ last' = Call("add_range", o, o, NoOperand, <<start, end>>, a.status, FALSE)
    /\ UNCHANGED <<ref, rangeVars, genVars, optVars, benchVars, regenVars, threadVars>>

\* o.remove(p)
Remove(o, p) ==
    /\ Bound(ref, o)
    /\ heap' = [heap EXCEPT ![ref[o]] = remove(heap[ref[o]], p)]
    /\ last' = Call("remove", o, o, NoOperand, <<p>>, "ok", FALSE)
    /\ UNCHANGED <<ref, rangeVars, genVars, optVars, benchVars, regenVars, threadVars>>

\* o.remove_range(start, end)
RemoveRange(o, start, end) ==
    /\ Bound(ref, o)
    /\ heap' = [heap EXCEPT ![ref[o]] = remove_range(heap[ref[o]], start, end)]
    /\ last' = Call("remove_range", o, o, NoOperand, <<start, end>>, "ok", FALSE)
    /\ UNCHANGED <<ref, rangeVars, genVars, optVars, benchVars, regenVars, threadVars>>

\* o = CodePointSet(code_points): the name is bound only when the
\* constructor returns.
Construct(o, code_points) ==
    LET c == __init__(code_points)
    IN /\ IF c.status = "ok" THEN Bind(o, NewSet(c.points))
          ELSE UNCHANGED <<heap, ref>>
       /\ last' = Call("init", o, "-", NoOperand, code_points, c.status, FALSE)
       /\ UNCHANGED <<rangeVars, genVars, optVars, benchVars, regenVars, threadVars>>

\* r = <an operation that returns a set>
Return(op, self, other, res) ==
    /\ IF res.status = "ok" THEN Bind("r", res) ELSE UNCHANGED <<heap, ref>>
    /\ last' = Call(op, "r", self, other, <<>>, res.status, FALSE)
    /\ UNCHANGED <<rangeVars, genVars, optVars, benchVars, regenVars, threadVars>>

\* The operand as the method receives it: a CodePointSet by its storage.
Resolve(rf, other) ==
    IF HasPoints(other) THEN Operand(other.type, rf[other.obj])
    ELSE Operand(other.type, 0)

\* r = self | other
Union(self, other) ==
    /\ Bound(ref, self)
    /\ Return("or", self, other, __or__(heap, ref[self], Resolve(ref, other)))

\* r = self & other
Intersection(self, other) ==
    /\ Bound(ref, self)
    /\ Return("and", self, other, __and__(heap, ref[self], Resolve(ref, other)))

\* r = self - other
Difference(self, other) ==
    /\ Bound(ref, self)
    /\ Return("sub", self, other, __sub__(heap, ref[self], Resolve(ref, other)))

\* r = ~self
Complement(self) ==
    /\ Bound(ref, self)
    /\ Return("invert", self, NoOperand, __invert__(heap, ref[self]))

\* r = self.copy()
Copy(self) ==
    /\ Bound(ref, self)
    /\ Return("copy", self, NoOperand, copy(heap, ref[self]))

\* x == y
Equals(x, y) ==
    /\ Bound(ref, x) /\ Bound(ref, y)
    /\ last' = Call("eq", "-", x, Operand("CodePointSet", y), <<>>, "ok", __eq__(x, y))
    /\ UNCHANGED <<heap, ref, rangeVars, genVars, optVars, benchVars, regenVars, threadVars>>

Next ==
    \/ \E o \in Objects : \E p \in PointArgs(o) : Add(o, p)
    \/ \E o \in Objects : \E a \in RangeArgs(o) : AddRange(o, a[1], a[2])
    \/ \E o \in Objects : \E p \in PointArgs(o) : Remove(o, p)
    \/ \E o \in Objects : \E a \in RangeArgs(o) : RemoveRange(o, a[1], a[2])
    \/ \E c \in Collections : Construct("s", c)
    \/ \E other \in Operands(ref) : Union("s", other)
    \/ \E other \in Operands(ref) : Intersection("s", other)
    \/ \E other \in Operands(ref) : Difference("s", other)
    \/ Complement("s")
    \/ Copy("s")
    \/ \E x \in {"s", "r"} : \E y \in {"s", "t"} : Equals(x, y)

Spec == Init /\ [][Next]_vars

(***************************************************************************)
(* State machine of the range type                                         *)
(***************************************************************************)

\* The bounds handed to CodePointRange.
RangeBounds == (-1)..(MAX_CODE_POINT + 1)

\* The ranges that can be constructed.
ValidRanges ==
    {[start |-> a, end |-> b] : <<a, b>> \in
        {x \in RangeBounds \X RangeBounds : CodePointRange(x[1], x[2]).status = "ok"}}

RangeOf(name) == IF name = "ra" THEN ra ELSE rb

OtherOf(name) == IF name = "ra" THEN rb ELSE ra

InitRange ==
    /\ SetStart /\ GenStart /\ OptStart
    /\ BenchStart /\ RegenStart /\ ThreadStart
    /\ ra \in ValidRanges
    /\ rb \in ValidRanges
    /\ rlast = RangeCall("none", "-", "ok", FALSE, NoRange)

\* ra = CodePointRange(start, end)
Create(start, end) ==
    LET c == CodePointRange(start, end)
    IN /\ ra' = IF c.status = "ok" THEN [start |-> start, end |-> end] ELSE ra
       /\ rlast' = RangeCall("create", "ra", c.status, FALSE,
                             [start |-> start, end |-> end])
       /\ UNCHANGED <<rb, setVars, genVars, optVars, benchVars, regenVars, threadVars>>

\* code_point in self
Contains(self, code_point) ==
    /\ rlast' = RangeCall("contains", self, "ok",
                          contains(RangeOf(self), code_point), NoRange)
    /\ UNCHANGED <<ra, rb, setVars, genVars, optVars, benchVars, regenVars, threadVars>>

\* self.overlaps(other)
Overlaps(self) ==
    /\ rlast' = RangeCall("overlaps", self, "ok",
                          overlaps(RangeOf(self), OtherOf(self)), NoRange)
    /\ UNCHANGED <<ra, rb, setVars, genVars, optVars, benchVars, regenVars, threadVars>>

\* self.adjacent_to(other)
AdjacentTo(self) ==
    /\ rlast' = RangeCall("adjacent_to", self, "ok",
                          adjacent_to(RangeOf(self), OtherOf(self)), NoRange)
    /\ UNCHANGED <<ra, rb, setVars, genVars, optVars, benchVars, regenVars, threadVars>>

\* self.merge(other)
Merge(self) ==
    LET m == merge(RangeOf(self), OtherOf(self))
    IN /\ rlast' = RangeCall("merge", self, m.status, FALSE,
                             [start |-> m.start, end |-> m.end])
       /\ UNCHANGED <<ra, rb, setVars, genVars, optVars, benchVars, regenVars, threadVars>>

NextRange ==
    \/ \E a \in {-1, 0, MAX_CODE_POINT, MAX_CODE_POINT + 1} :
           \E b \in {0, MAX_CODE_POINT, MAX_CODE_POINT + 1} : Create(a, b)
    \/ \E self \in {"ra", "rb"} : \E p \in {0, MAX_CODE_POINT} : Contains(self, p)
    \/ \E self \in {"ra", "rb"} : Overlaps(self)
    \/ \E self \in {"ra", "rb"} : AdjacentTo(self)
    \/ \E self \in {"ra", "rb"} : Merge(self)

SpecRange == InitRange /\ [][NextRange]_vars

(***************************************************************************)
(* State machine of the generator                                          *)
(***************************************************************************)

\* The most entries the pattern cache holds before a new generator is made.
MaxCacheEntries == 2

\* The values handed over as prioritize; "verbose" is not one the generator
\* documents.
Priorities == {"size", "readability", "verbose"}

\* + - a
GenSample == {43, 45, 97}

\* The memberships of the sets handed to the generator: the sets of the
\* sample characters, two sets with the range a-b, a set of two characters
\* outside ASCII (U+0391 and U+10400), and the members of the common ranges.
GenPointSets ==
    (SUBSET GenSample) \cup {{97, 98}, {43, 97, 98}, {913, 66560}}
        \cup {COMMON_RANGES[i].points : i \in 1..Len(COMMON_RANGES)}

\* Sets built by the caller, and the generator's own COMMON_RANGES objects.
GenInputs ==
    {CodePoints("user", P) : P \in GenPointSets}
        \cup {CodePoints(COMMON_RANGES[i].id, COMMON_RANGES[i].points) :
                 i \in 1..Len(COMMON_RANGES)}

\* generator.generate_pattern(code_points, prioritize)
Generate(code_points, prioritize) ==
    /\ \/ code_points.points = {}
       \/ <<code_points.points, prioritize>> \in DOMAIN cache
       \/ Cardinality(DOMAIN cache) < MaxCacheEntries
    /\ LET g == generate_pattern(cache, code_points, prioritize)
       IN /\ cache' = g.cache
          /\ glast' = GenCall("generate_pattern", code_points, prioritize,
                             g.status, g.pattern)
    /\ UNCHANGED <<setVars, rangeVars, optVars, benchVars, regenVars, threadVars>>

\* generator = RegexGenerator()
NewGenerator ==
    /\ cache' = EmptyCache
    /\ glast' = GenCall("new", CodePoints("user", {}), "size", "ok", <<>>)
    /\ UNCHANGED <<setVars, rangeVars, optVars, benchVars, regenVars, threadVars>>

NextGen ==
    \/ \E code_points \in GenInputs : \E prioritize \in Priorities :
           Generate(code_points, prioritize)
    \/ NewGenerator

SpecGen == Init /\ [][NextGen]_vars

(***************************************************************************)
(* State machine of the functions on lists                                 *)
(***************************************************************************)

\* generator.generate_alternation_pattern(patterns, prioritize)
Alternate(patterns, prioritize) ==
    /\ olast' = [OptCall("generate_alternation_pattern", <<>>, prioritize, "ok",
                         generate_alternation_pattern(patterns, prioritize))
                     EXCEPT !.patterns = patterns]
    /\ UNCHANGED <<setVars, rangeVars, genVars, benchVars, regenVars, threadVars>>

\* optimizer.compress_ranges(code_points)
CompressRanges(code_points) ==
    /\ olast' = [OptCall("compress_ranges", code_points, "-", "ok", <<>>)
                     EXCEPT !.ranges = compress_ranges(code_points)]
    /\ UNCHANGED <<setVars, rangeVars, genVars, benchVars, regenVars, threadVars>>

NextLists ==
    \/ \E patterns \in AlternativeLists : \E prioritize \in Priorities :
           Alternate(patterns, prioritize)
    \/ \E code_points \in PointLists : CompressRanges(code_points)

SpecLists == Init /\ [][NextLists]_vars

(***************************************************************************)
(* State machine of the optimizer: a pattern is taken in hand and the      *)
(* functions are applied to it, each to the pattern the one before left.   *)
(***************************************************************************)

\* The pattern in hand: what the last call returned, or its argument when
\* the call raised.
InHand == IF olast.status = "ok" THEN olast.result ELSE olast.arg

InitPattern ==
    /\ SetStart /\ RangeStart /\ GenStart
    /\ BenchStart /\ RegenStart /\ ThreadStart
    /\ olast \in {OptCall("pattern", p, "-", "ok", p) : p \in Patterns}

\* pattern = optimizer.minimize_pattern(pattern)
MinimizePattern ==
    /\ olast' = OptCall("minimize_pattern", InHand, "-", "ok",
                        minimize_pattern(InHand))
    /\ UNCHANGED <<setVars, rangeVars, genVars, benchVars, regenVars, threadVars>>

\* pattern = optimizer.optimize_readability(pattern)
OptimizeReadability ==
    /\ olast' = OptCall("optimize_readability", InHand, "-", "ok",
                        optimize_readability(InHand))
    /\ UNCHANGED <<setVars, rangeVars, genVars, benchVars, regenVars, threadVars>>

\* pattern = optimizer.optimize_pattern(pattern, prioritize)
OptimizePattern(prioritize) ==
    /\ LET o == optimize_pattern(InHand, prioritize)
       IN olast' = OptCall("optimize_pattern", InHand, prioritize, o.status, o.result)
    /\ UNCHANGED <<setVars, rangeVars, genVars, benchVars, regenVars, threadVars>>

\* pattern = optimizer.optimize(pattern)
Optimize ==
    /\ olast' = OptCall("optimize", InHand, "-", "ok", optimize(InHand))
    /\ UNCHANGED <<setVars, rangeVars, genVars, benchVars, regenVars, threadVars>>

NextPattern ==
    \/ MinimizePattern
    \/ OptimizeReadability
    \/ \E prioritize \in Priorities : OptimizePattern(prioritize)
    \/ Optimize

SpecPattern == InitPattern /\ [][NextPattern]_vars

(***************************************************************************)
(* Properties of the set type                                              *)
(***************************************************************************)

\* The valid code space.
CodeSpace == 0..MAX_CODE_POINT

Mutators == {"add", "add_range", "remove", "remove_range"}

SetOperators == {"or", "and", "sub", "invert", "copy"}

\* C1: add, add_range and the constructor validate before they insert. A
\* valid add(p) makes p a member and changes nothing else; a call given an
\* integer outside the code space, or a range with start > end, raises and
\* leaves the membership as it was; a failed constructor binds no set.
C1_InsertValidates ==
    [][LET c      == last'
           before == Points(heap, ref, c.target)
           after  == Points(heap', ref', c.target)
       IN /\ c.op = "add" =>
                IF c.args[1] \in CodeSpace
                THEN /\ c.status = "ok"
                     /\ c.args[1] \in after
                     /\ \A q \in (before \cup after) \ {c.args[1]} :
                            q \in before <=> q \in after
                ELSE c.status = "ValueError" /\ after = before
          /\ c.op = "add_range" =>
                IF /\ c.args[1] \in CodeSpace
                   /\ c.args[2] \in CodeSpace
                   /\ c.args[1] <= c.args[2]
                THEN /\ c.status = "ok"
                     /\ after = before \cup (c.args[1]..c.args[2])
                ELSE c.status = "ValueError" /\ after = before
          /\ c.op = "init" =>
                IF Elems(c.args) \subseteq CodeSpace
                THEN c.status = "ok" /\ after = Elems(c.args)
                ELSE /\ c.status = "ValueError"
                     /\ ref' = ref
                     /\ heap' = heap
          /\ c.op \in {"add", "add_range", "init"} =>
                \A o \in Objects \ {c.target} :
                    Points(heap', ref', o) = Points(heap, ref, o)
      ]_vars

\* An invalid add_range was refused on a set that already has members.
C1_Witness ==
    /\ last.op = "add_range"
    /\ last.status = "ValueError"
    /\ last.args[1] \in CodeSpace
    /\ Points(heap, ref, last.target) # {}

\* The points of a list of (start, end) pairs.
Covered(rs) == UNION {rs[i][1]..rs[i][2] : i \in 1..Len(rs)}

\* Every listed range added to a fresh set, in order.
RECURSIVE Readd(_, _, _)
Readd(points, rs, i) ==
    IF i > Len(rs) THEN [status |-> "ok", points |-> points]
    ELSE LET a == add_range(points, rs[i][1], rs[i][2])
         IN IF a.status # "ok" THEN a ELSE Readd(a.points, rs, i + 1)

RangesOf(pts) ==
    LET rs == get_ranges(pts)
    IN /\ \A i \in 1..Len(rs) : rs[i][1] <= rs[i][2]
       /\ \A i \in 1..(Len(rs) - 1) : rs[i + 1][1] > rs[i][2] + 1
       /\ Covered(rs) = pts
       /\ (pts = {}) => (rs = <<>>)
       /\ Readd({}, rs, 1) = [status |-> "ok", points |-> pts]

\* C2: for every set a run reaches, get_ranges yields ascending, disjoint,
\* non-adjacent pairs whose union is the set's members; the empty set
\* yields nothing and re-adding the pairs to a fresh set gives the set back.
C2_RangesDecompose ==
    \A o \in Objects : Bound(ref, o) => RangesOf(Points(heap, ref, o))

\* A set operation returned a set of at least three ranges.
C2_Witness ==
    /\ last.op \in SetOperators
    /\ last.status = "ok"
    /\ Len(get_ranges(Points(heap, ref, "r"))) >= 3

\* C3: the complement holds exactly the points of the code space that are
\* not in the set: s | ~s is the code space, s & ~s is empty, and the
\* complement of the empty set is the whole code space.
C3_Complement ==
    (last.op = "invert" /\ last.status = "ok") =>
        LET s == ref[last.self]
            c == ref["r"]
        IN /\ \A p \in CodeSpace : p \in heap[c] <=> p \notin heap[s]
           /\ heap[c] \subseteq CodeSpace
           /\ __or__(heap, s, Operand("CodePointSet", c)).points = CodeSpace
           /\ __and__(heap, s, Operand("CodePointSet", c)).points = {}
           /\ (heap[s] = {}) => (heap[c] = CodeSpace)

\* The complement of a set of several ranges that has the last code point.
C3_Witness ==
    /\ last.op = "invert"
    /\ last.status = "ok"
    /\ MAX_CODE_POINT \in Points(heap, ref, last.self)
    /\ Len(get_ranges(Points(heap, ref, last.self))) >= 2

\* C4 as claimed: |, & and - with an operand that is not a CodePointSet
\* raise TypeError.
C4_TypeErrorClaim ==
    (last.op \in {"or", "and", "sub"} /\ ~HasPoints(last.other)) =>
        last.status = "TypeError"

\* C5 as claimed: x == y exactly when x and y have the same members.
C5_EqualityClaim ==
    (last.op = "eq") =>
        (last.result <=>
            Points(heap, ref, last.self) = Points(heap, ref, last.other.obj))

\* C6: a set operator changes no operand, the set it returns has storage of
\* its own, and a later mutation of the result or of an operand changes
\* only the object it is called on.
C6_NoSharedStorage ==
    [][LET c == last'
       IN /\ c.op \in SetOperators =>
                /\ \A o \in {"s", "t"} :
                       Points(heap', ref', o) = Points(heap, ref, o)
                /\ c.status = "ok" =>
                       \A o \in {"s", "t"} : ref'["r"] # ref'[o]
          /\ c.op \in Mutators =>
                \A o \in Objects \ {c.target} :
                    Points(heap', ref', o) = Points(heap, ref, o)
      ]_vars

\* The returned set was mutated and now differs from the operand.
C6_Witness ==
    /\ last.op = "add"
    /\ last.target = "r"
    /\ last.status = "ok"
    /\ Points(heap, ref, "s") # {}
    /\ ~(1 \in Points(heap, ref, "s"))

(***************************************************************************)
(* Properties of the range type                                            *)
(***************************************************************************)

\* The points of a range.
RangePoints(r) == r.start..r.end

\* The two ranges share a point.
Share(a, b) == RangePoints(a) \cap RangePoints(b) # {}

\* A point of one range is followed at once by a point of the other.
Touch(a, b) ==
    \E p \in RangePoints(a) : \E q \in RangePoints(b) : p + 1 = q \/ q + 1 = p

\* C7: merge succeeds exactly when the two ranges overlap or are adjacent,
\* and then returns {min(start), max(end)}, whose points are the points of
\* the two ranges; otherwise it raises. overlaps and adjacent_to give the
\* same answer with their arguments exchanged.
C7_Merge ==
    /\ (rlast.op = "merge") =>
           LET a == RangeOf(rlast.self)
               b == OtherOf(rlast.self)
           IN /\ rlast.status = "ok" <=> (Share(a, b) \/ Touch(a, b))
              /\ rlast.status # "ok" => rlast.status = "ValueError"
              /\ rlast.status = "ok" =>
                     /\ rlast.merged.start = min(a.start, b.start)
                     /\ rlast.merged.end = max(a.end, b.end)
                     /\ RangePoints(rlast.merged) = RangePoints(a) \cup RangePoints(b)
    /\ overlaps(ra, rb) <=> overlaps(rb, ra)
    /\ adjacent_to(ra, rb) <=> adjacent_to(rb, ra)
    /\ (rlast.op = "overlaps") =>
           (rlast.result <=> Share(ra, rb))
    /\ (rlast.op = "adjacent_to") =>
           (rlast.result <=> (Touch(ra, rb) /\ ~Share(ra, rb)))

\* A range was merged with the disjoint range that ends right before it.
C7_Witness ==
    /\ rlast.op = "merge"
    /\ rlast.status = "ok"
    /\ OtherOf(rlast.self).end + 1 = RangeOf(rlast.self).start
    /\ RangeOf(rlast.self).start < RangeOf(rlast.self).end

(***************************************************************************)
(* Properties of the generator                                             *)
(***************************************************************************)

\* The characters a pattern is matched against.
Alphabet == range(0, 128)

\* The members of the common range of pattern COMMON_RANGES[i].pattern.
CommonMembers == {COMMON_RANGES[i].points : i \in 1..Len(COMMON_RANGES)}

\* The shorthand of a set of members of a common range.
Shorthand(points) ==
    LET i == CHOOSE j \in 1..Len(COMMON_RANGES) : COMMON_RANGES[j].points = points
    IN COMMON_RANGES[i].pattern

\* What \d, \w and \s match among the characters of the alphabet.
CategoryLetters == {100, 119, 115}

Category(letter) ==
    LET i == CHOOSE j \in 1..Len(COMMON_RANGES) : COMMON_RANGES[j].pattern[2] = letter
    IN COMMON_RANGES[i].points

NoMatch == [ok |-> FALSE, set |-> {}, next |-> 0]

\* The regular expression engine's reading of the items of a bracket class
\* from position i of pattern p: an item is a character, an escaped
\* character or a range lo-hi; a hyphen is a character when it is the first
\* or the last item; the first ] after at least one item ends the class.
RECURSIVE ClassItems(_, _, _, _)
ClassItems(p, i, acc, n) ==
    IF i > Len(p) THEN NoMatch
    ELSE IF p[i] = RBRACKET /\ n > 0 THEN [ok |-> TRUE, set |-> acc, next |-> i + 1]
    ELSE IF p[i] = BACKSLASH /\ i + 1 > Len(p) THEN NoMatch
    ELSE LET esc1  == p[i] = BACKSLASH
             code1 == IF esc1 THEN p[i + 1] ELSE p[i]
             lit1  == ~(esc1 /\ code1 \in CategoryLetters)
             item1 == IF lit1 THEN {code1} ELSE Category(code1)
             j     == IF esc1 THEN i + 2 ELSE i + 1
         IN IF j <= Len(p) /\ p[j] = HYPHEN
            THEN IF j + 1 > Len(p) THEN NoMatch
                 ELSE IF p[j + 1] = RBRACKET
                 THEN [ok |-> TRUE, set |-> acc \cup item1 \cup {HYPHEN}, next |-> j + 2]
                 ELSE IF p[j + 1] = BACKSLASH /\ j + 2 > Len(p) THEN NoMatch
                 ELSE LET esc2  == p[j + 1] = BACKSLASH
                          code2 == IF esc2 THEN p[j + 2] ELSE p[j + 1]
                          lit2  == ~(esc2 /\ code2 \in CategoryLetters)
                          k     == IF esc2 THEN j + 3 ELSE j + 2
                      IN IF ~lit1 \/ ~lit2 \/ code2 < code1 THEN NoMatch
                         ELSE ClassItems(p, k, acc \cup (code1..code2), n + 1)
            ELSE ClassItems(p, j, acc \cup item1, n + 1)

\* The characters c of the alphabet whose one-character string the pattern
\* matches, for the patterns the generator writes: one character, one
\* escaped character, a shorthand, or one bracket class.
Matches(p) ==
    IF Len(p) = 1
    THEN IF p[1] = 46 THEN [ok |-> TRUE, set |-> Alphabet \ {10}]
         ELSE IF _needs_escape(p[1]) THEN [ok |-> FALSE, set |-> {}]
         ELSE [ok |-> TRUE, set |-> {p[1]}]
    ELSE IF Len(p) = 2 /\ p[1] = BACKSLASH
    THEN IF p[2] \in CategoryLetters THEN [ok |-> TRUE, set |-> Category(p[2])]
         ELSE [ok |-> TRUE, set |-> {p[2]}]
    ELSE IF Len(p) >= 2 /\ p[1] = LBRACKET
    THEN LET negate == p[2] = 94
             c == ClassItems(p, IF negate THEN 3 ELSE 2, {}, 0)
         IN IF c.ok /\ c.next = Len(p) + 1
            THEN [ok |-> TRUE,
                  set |-> IF negate THEN Alphabet \ c.set ELSE c.set \cap Alphabet]
            ELSE [ok |-> FALSE, set |-> {}]
    ELSE [ok |-> FALSE, set |-> {}]

\* C8 as claimed: a set with exactly the members of a common range gives
\* the shorthand of that range, however the set was built.
C8_ShorthandClaim ==
    (glast.op = "generate_pattern" /\ glast.code_points.points \in CommonMembers) =>
        glast.pattern = Shorthand(glast.code_points.points)

\* C9 as claimed: for a non-empty set and an accepted priority the pattern
\* matches the one-character string of c exactly when c is a member.
C9_MatchesClaim ==
    (/\ glast.op = "generate_pattern"
     /\ glast.code_points.points # {}
     /\ glast.prioritize \in {"size", "readability"}) =>
        LET m == Matches(glast.pattern)
        IN m.ok /\ m.set = glast.code_points.points

\* The maximal runs of consecutive members of a set.
MaximalRanges(P) ==
    {r \in P \X P :
        /\ r[1] <= r[2]
        /\ \A c \in r[1]..r[2] : c \in P
        /\ (r[1] - 1) \notin P
        /\ (r[2] + 1) \notin P}

\* The maximal ranges in ascending order.
Ascending(R) ==
    [i \in 1..Cardinality(R) |->
        CHOOSE r \in R : Cardinality({q \in R : q[1] < r[1]}) = i - 1]

\* The rendering of one range: its point, or start-end (start - end under
\* readability).
Rendering(r, prioritize) ==
    IF r[1] = r[2] THEN char_pattern(r[1])
    ELSE char_pattern(r[1])
         \o (IF prioritize = "readability" THEN <<SPACE, HYPHEN, SPACE>> ELSE <<HYPHEN>>)
         \o char_pattern(r[2])

\* The renderings of rs[i..] with sep between them.
RECURSIVE Joined(_, _, _, _)
Joined(rs, i, sep, prioritize) ==
    IF i > Len(rs) THEN <<>>
    ELSE IF i = Len(rs) THEN Rendering(rs[i], prioritize)
    ELSE Rendering(rs[i], prioritize) \o sep \o Joined(rs, i + 1, sep, prioritize)

\* The shape the maximal ranges of a set fix for its pattern.
Shape(P, prioritize) ==
    LET rs == Ascending(MaximalRanges(P))
    IN IF Len(rs) = 0 THEN EMPTY_CLASS
       ELSE IF Len(rs) = 1 /\ rs[1][1] = rs[1][2] THEN char_pattern(rs[1][1])
       ELSE <<LBRACKET>>
            \o Joined(rs, 1, IF prioritize = "readability" THEN <<SPACE, BAR, SPACE>>
                            ELSE <<>>, prioritize)
            \o <<RBRACKET>>

RenderedPoints(P) ==
    {r[1] : r \in MaximalRanges(P)} \cup {r[2] : r \in MaximalRanges(P)}

\* C11 as claimed: in a pattern that is not a shorthand every character is
\* below 0x80, and every rendered code point appears in the form
\* _format_code_point gives it: \UXXXXXXXX above U+FFFF, \uXXXX from U+0080
\* to U+FFFF, and below 0x80 the character itself, after a backslash when it
\* is a special character.
C11_EscapeClaim ==
    (/\ glast.op = "generate_pattern"
     /\ glast.pattern \notin {COMMON_RANGES[i].pattern : i \in 1..Len(COMMON_RANGES)}) =>
        /\ \A i \in 1..Len(glast.pattern) : glast.pattern[i] < 128
        /\ \A cp \in RenderedPoints(glast.code_points.points) :
               occurs(_format_code_point(cp, FALSE), glast.pattern)

(***************************************************************************)
(* Properties of generate_alternation_pattern                              *)
(***************************************************************************)

\* The elements of patterns from i on, in input order, with sep between
\* two neighbours.
RECURSIVE Separated(_, _, _)
Separated(patterns, i, sep) ==
    IF i > Len(patterns) THEN <<>>
    ELSE IF i = Len(patterns) THEN patterns[i]
    ELSE patterns[i] \o sep \o Separated(patterns, i + 1, sep)

\* C12: generate_alternation_pattern returns '[]' for the empty list, the
\* element itself for a list of one, and for two or more elements the
\* elements in input order joined with '|' under size priority and
\* '(?:' + the elements joined with ' | ' + ')' under readability priority.
C12_Alternation ==
    (/\ olast.op = "generate_alternation_pattern"
     /\ olast.prioritize \in {"size", "readability"}) =>
        /\ olast.status = "ok"
        /\ Len(olast.patterns) = 0 => olast.result = <<LBRACKET, RBRACKET>>
        /\ Len(olast.patterns) = 1 => olast.result = olast.patterns[1]
        /\ (Len(olast.patterns) >= 2 /\ olast.prioritize = "size") =>
               olast.result = Separated(olast.patterns, 1, <<BAR>>)
        /\ (Len(olast.patterns) >= 2 /\ olast.prioritize = "readability") =>
               olast.result = <<40, 63, 58>>
                                  \o Separated(olast.patterns, 1, <<SPACE, BAR, SPACE>>)
                                  \o <<RPAREN>>

\* The alternatives [d], a and bc were joined for readability:
\* '(?:[d] | a | bc)'.
C12_Witness ==
    /\ olast.op = "generate_alternation_pattern"
    /\ olast.prioritize = "readability"
    /\ olast.patterns = <<(<<LBRACKET, 100, RBRACKET>>), (<<97>>), (<<98, 99>>)>>
    /\ olast.result = <<40, 63, 58, LBRACKET, 100, RBRACKET, SPACE, BAR, SPACE,
                        97, SPACE, BAR, SPACE, 98, 99, RPAREN>>

(***************************************************************************)
(* Properties of the pattern cache and of the priority of generate_pattern *)
(***************************************************************************)

\* C13 as claimed: every call returns the pattern a generator with an empty
\* cache returns for the same set and priority.
C13_CacheTransparentClaim ==
    glast.op = "generate_pattern" =>
        glast.pattern =
            generate_pattern(EmptyCache, glast.code_points, glast.prioritize).pattern

\* C14 as claimed: a priority other than 'size' and 'readability' makes
\* generate_pattern raise ValueError, for every set.
C14_PriorityClaim ==
    (/\ glast.op = "generate_pattern"
     /\ glast.prioritize \notin {"size", "readability"}) =>
        glast.status = "ValueError"

(***************************************************************************)
(* Properties of compress_ranges                                           *)
(***************************************************************************)

\* C15 as claimed: compress_ranges returns the maximal ranges of the
\* distinct points of its input, each once, in ascending order and with a
\* gap between two neighbours (the empty list for empty input), whether the
\* input is a set or a list with repeated elements.
C15_CompressClaim ==
    olast.op = "compress_ranges" =>
        LET R == MaximalRanges(Elems(olast.arg))
        IN /\ Len(olast.ranges) = Cardinality(R)
           /\ \A i \in 1..Len(olast.ranges) : olast.ranges[i] \in R
           /\ \A i \in 1..(Len(olast.ranges) - 1) :
                  olast.ranges[i][2] + 1 < olast.ranges[i + 1][1]

(***************************************************************************)
(* Properties of the optimizer                                             *)
(***************************************************************************)

\* C16: optimize_pattern raises ValueError and returns nothing for a
\* priority other than 'size' and 'readability'; for 'size' it returns
\* minimize_pattern(pattern) and for 'readability'
\* optimize_readability(minimize_pattern(pattern)).
C16_OptimizePattern ==
    olast.op = "optimize_pattern" =>
        /\ olast.prioritize \notin {"size", "readability"} =>
               olast.status = "ValueError" /\ olast.result = <<>>
        /\ olast.prioritize = "size" =>
               olast.status = "ok" /\ olast.result = minimize_pattern(olast.arg)
        /\ olast.prioritize = "readability" =>
               /\ olast.status = "ok"
               /\ olast.result = optimize_readability(minimize_pattern(olast.arg))

\* optimize_pattern for readability returned a pattern to which the
\* readability pass added spaces.
C16_Witness ==
    /\ olast.op = "optimize_pattern"
    /\ olast.prioritize = "readability"
    /\ olast.status = "ok"
    /\ Len(olast.result) > Len(minimize_pattern(olast.arg))

\* C17 as claimed: minimize_pattern applied to its own result changes
\* nothing.
C17_IdempotentClaim ==
    olast.op = "minimize_pattern" =>
        minimize_pattern(olast.result) = olast.result

\* The pattern p from position i on with every one-character class [x]
\* replaced by x and every other class and character kept; p has no
\* backslash, so a class ends at the first ] after its first character.
RECURSIVE CollapseClasses(_, _)
CollapseClasses(p, i) ==
    IF i > Len(p) THEN <<>>
    ELSE LET e == IF p[i] = LBRACKET THEN find(p, <<RBRACKET>>, i + 2) ELSE 0
         IN IF e = 0 THEN <<p[i]>> \o CollapseClasses(p, i + 1)
            ELSE IF e = i + 2 THEN <<p[i + 1]>> \o CollapseClasses(p, e + 1)
            ELSE SubSeq(p, i, e) \o CollapseClasses(p, e + 1)

\* C18 as claimed: in a pattern without groups, escapes and adjacent
\* classes, minimize_pattern replaces every one-character class [x] by x,
\* wherever the class stands, and keeps the other classes.
C18_ClassClaim ==
    (/\ olast.op = "minimize_pattern"
     /\ Elems(olast.arg) \cap {40, RPAREN, BACKSLASH} = {}
     /\ ~occurs(<<RBRACKET, LBRACKET>>, olast.arg)) =>
        olast.result = CollapseClasses(olast.arg, 1)

\* The contents of the groups of p from position i on when p is a
\* concatenation of non-capturing groups without parentheses inside.
RECURSIVE GroupContents(_, _, _)
GroupContents(p, i, acc) ==
    IF i > Len(p) THEN [ok |-> acc # <<>>, contents |-> acc]
    ELSE LET e == find(p, <<RPAREN>>, i + 3)
         IN IF /\ startswith(SubSeq(p, i, Len(p)), <<40, 63, 58>>)
               /\ e # 0
               /\ ~occurs(<<40>>, SubSeq(p, i + 3, e - 1))
            THEN GroupContents(p, e + 1, Append(acc, SubSeq(p, i + 3, e - 1)))
            ELSE [ok |-> FALSE, contents |-> <<>>]

\* The content c has, from position i on, an alternation bar that is
\* neither escaped nor inside a bracket class.
RECURSIVE TopLevelBar(_, _, _)
TopLevelBar(c, i, in_class) ==
    IF i > Len(c) THEN FALSE
    ELSE IF c[i] = BACKSLASH THEN TopLevelBar(c, i + 2, in_class)
    ELSE IF c[i] = BAR /\ ~in_class THEN TRUE
    ELSE TopLevelBar(c, i + 1,
                     IF c[i] = LBRACKET THEN TRUE
                     ELSE IF c[i] = RBRACKET THEN FALSE ELSE in_class)

\* The groups of the given contents, each replaced by its content when the
\* content has no top-level bar and kept otherwise.
Ungrouped(contents) ==
    join(<<>>, [k \in 1..Len(contents) |->
                   IF TopLevelBar(contents[k], 1, FALSE)
                   THEN <<40, 63, 58>> \o contents[k] \o <<RPAREN>>
                   ELSE contents[k]])

\* An escaped character that has to stay escaped: a metacharacter, a class
\* delimiter, or the letter of a shorthand class.
RequiredEscape(c) == _needs_escape(c) \/ c \in CategoryLetters

\* The pattern p from position i on with the backslash of every
\* unnecessary escape removed.
RECURSIVE Unescaped(_, _)
Unescaped(p, i) ==
    IF i > Len(p) THEN <<>>
    ELSE IF p[i] = BACKSLASH /\ i < Len(p)
    THEN (IF RequiredEscape(p[i + 1]) THEN <<BACKSLASH, p[i + 1]>> ELSE <<p[i + 1]>>)
             \o Unescaped(p, i + 2)
    ELSE <<p[i]>> \o Unescaped(p, i + 1)

\* C19 as claimed: for a concatenation of non-capturing groups whose
\* contents hold nothing else to remove, minimize_pattern replaces each
\* group by its content exactly when the content has no top-level bar.
C19_GroupClaim ==
    LET g == GroupContents(olast.arg, 1, <<>>)
        u == Ungrouped(g.contents)
    IN (/\ olast.op = "minimize_pattern"
        /\ g.ok
        /\ CollapseClasses(u, 1) = u
        /\ Unescaped(u, 1) = u
        /\ ~occurs(<<RBRACKET, LBRACKET>>, u)) =>
           olast.result = u

\* p from position i on is made of plain characters and of escapes of a
\* lower-case letter or of a character whose escape is required.
RECURSIVE PlainAndEscapes(_, _)
PlainAndEscapes(p, i) ==
    IF i > Len(p) THEN TRUE
    ELSE IF p[i] = BACKSLASH
    THEN /\ i < Len(p)
         /\ RequiredEscape(p[i + 1]) \/ p[i + 1] \in range(97, 123)
         /\ PlainAndEscapes(p, i + 2)
    ELSE ~_needs_escape(p[i]) /\ PlainAndEscapes(p, i + 1)

\* C20 as claimed: in a pattern of plain characters and escapes,
\* minimize_pattern removes the backslash of every unnecessary escape (\a
\* gives a) and keeps every required one (\[, \w, \d).
C20_EscapeClaim ==
    (olast.op = "minimize_pattern" /\ PlainAndEscapes(olast.arg, 1)) =>
        olast.result = Unescaped(olast.arg, 1)

\* The contents of the bracket classes of p from position i on when p is a
\* run of two or more classes and nothing else, each class with at least
\* one character and neither a bracket nor a backslash inside.
RECURSIVE ClassContents(_, _, _)
ClassContents(p, i, acc) ==
    IF i > Len(p) THEN [ok |-> Len(acc) >= 2, contents |-> acc]
    ELSE LET e == find(p, <<RBRACKET>>, i + 2)
             c == SubSeq(p, i + 1, e - 1)
         IN IF /\ p[i] = LBRACKET
               /\ e # 0
               /\ Elems(c) \cap {LBRACKET, RBRACKET, BACKSLASH} = {}
            THEN ClassContents(p, e + 1, Append(acc, c))
            ELSE [ok |-> FALSE, contents |-> <<>>]

\* C21 as claimed: minimize_pattern merges a pattern made only of two or
\* more immediately adjacent bracket classes into one class that holds
\* their contents in order ([a][b] gives [ab]).
C21_MergeClaim ==
    LET k == ClassContents(olast.arg, 1, <<>>)
    IN (olast.op = "minimize_pattern" /\ k.ok) =>
           olast.result = <<LBRACKET>> \o join(<<>>, k.contents) \o <<RBRACKET>>

\* What a pattern of one atom matches among the one-character strings:
\* Matches, and for the one-character patterns Matches leaves out: a bar,
\* ^ and $ are well-formed and match no one-character string; ], { and }
\* alone stand for themselves.
MatchesAtom(p) ==
    IF Len(p) = 1 /\ p[1] \in {BAR, 94, 36} THEN [ok |-> TRUE, set |-> {}]
    ELSE IF Len(p) = 1 /\ p[1] \in {RBRACKET, 123, 125}
    THEN [ok |-> TRUE, set |-> {p[1]}]
    ELSE [ok |-> Matches(p).ok, set |-> Matches(p).set]

\* p is an alternation of strings of plain characters: it has bars and
\* characters that are no metacharacters (a space is one of them: the
\* engine matches it literally).
PlainAlternation(p) ==
    p # <<>> /\ \A i \in 1..Len(p) : p[i] = BAR \/ ~_needs_escape(p[i])

\* The strings an alternation of strings of plain characters matches.
Language(p) == Elems(split(p, <<BAR>>))

\* C22 as claimed: optimize_pattern, for 'size' and for 'readability',
\* returns a well-formed pattern that matches exactly the strings its
\* argument matches: a pattern of one atom (a class, a character, an
\* escape) gives a pattern of one atom that matches the same characters,
\* and an alternation of plain strings gives an alternation of the same
\* strings.
C22_SemanticsClaim ==
    (olast.op = "optimize_pattern" /\ olast.status = "ok") =>
        /\ MatchesAtom(olast.arg).ok =>
               /\ MatchesAtom(olast.result).ok
               /\ MatchesAtom(olast.result).set = MatchesAtom(olast.arg).set
        /\ PlainAlternation(olast.arg) =>
               /\ PlainAlternation(olast.result)
               /\ Language(olast.result) = Language(olast.arg)

\* Whether position i of pattern p is inside a bracket class, by the scan
\* from the left: a [ opens a class and a ] closes it.
RECURSIVE InClass(_, _)
InClass(p, i) ==
    IF i <= 1 THEN FALSE
    ELSE IF p[i - 1] = LBRACKET THEN TRUE
    ELSE IF p[i - 1] = RBRACKET THEN FALSE
    ELSE InClass(p, i - 1)

\* Every bar of r outside a bracket class has a space right before it and
\* a space right after it.
Padded(r) ==
    \A i \in 1..Len(r) :
        (r[i] = BAR /\ ~InClass(r, i)) =>
            /\ i > 1 /\ r[i - 1] = SPACE
            /\ i < Len(r) /\ r[i + 1] = SPACE

\* r from position j on is p from position i on with spaces added, each
\* right before or right after a bar outside a bracket class.
RECURSIVE Spaced(_, _, _, _)
Spaced(p, i, r, j) ==
    IF j > Len(r) THEN i > Len(p)
    ELSE \/ /\ i <= Len(p)
            /\ p[i] = r[j]
            /\ Spaced(p, i + 1, r, j + 1)
         \/ /\ r[j] = SPACE
            /\ \/ j < Len(r) /\ r[j + 1] = BAR /\ ~InClass(r, j + 1)
               \/ j > 1 /\ r[j - 1] = BAR /\ ~InClass(r, j - 1)
            /\ Spaced(p, i, r, j + 1)

\* C23 as claimed: in the pattern optimize_readability returns every bar
\* outside a bracket class has a space right before and right after it,
\* and the pattern is its argument with nothing but such spaces added.
C23_ReadabilityClaim ==
    olast.op = "optimize_readability" =>
        /\ Padded(olast.result)
        /\ Spaced(olast.arg, 1, olast.result, 1)

\* C24: the pattern optimize_pattern returns for 'size' is never longer
\* than the one it returns for 'readability' on the same argument.
C24_SizeNotLonger ==
    (olast.op = "optimize_pattern" /\ olast.status = "ok") =>
        /\ olast.prioritize = "size" =>
               Len(olast.result)
                   <= Len(optimize_pattern(olast.arg, "readability").result)
        /\ olast.prioritize = "readability" =>
               Len(optimize_pattern(olast.arg, "size").result)
                   <= Len(olast.result)

\* optimize_pattern returned for 'size' a pattern with a bar outside a
\* class that is shorter than the one it returns for 'readability'.
C24_Witness ==
    /\ olast.op = "optimize_pattern"
    /\ olast.status = "ok"
    /\ olast.prioritize = "size"
    /\ \E i \in 1..Len(olast.result) :
           olast.result[i] = BAR /\ ~InClass(olast.result, i)
    /\ Len(olast.result) < Len(optimize_pattern(olast.arg, "readability").result)

\* C25 as claimed: optimize never returns a pattern longer than its
\* argument, and returns the empty pattern and a pattern of nothing but
\* spaces unchanged.
C25_NotLongerClaim ==
    olast.op = "optimize" =>
        /\ Len(olast.result) <= Len(olast.arg)
        /\ Elems(olast.arg) \subseteq {SPACE} => olast.result = olast.arg

(***************************************************************************)
(* benchmark_pattern                                                       *)
(***************************************************************************)

\* The letters that follow a backslash outside a bracket class as an
\* escape of its own: \A \B \Z \a \b \d \D \f \n \r \s \S \t \v \w \W.
ESCAPE_LETTERS ==
    {65, 66, 90, 97, 98, 100, 68, 102, 110, 114, 115, 83, 116, 118, 119, 87}

\* re.compile(pattern) from position i on, inside depth open groups; atom
\* tells whether something a quantifier can repeat stands right before i.
\* TRUE when the pattern compiles and FALSE when re.error is raised. The
\* patterns are made of characters, escapes of one character, bracket
\* classes, groups ( and (?: , bars and the quantifiers ? * + (numeric,
\* hexadecimal and named escapes and the other (? constructs are not
\* written by any caller here).
RECURSIVE re_compile_loop(_, _, _, _)
re_compile_loop(p, i, depth, atom) ==
    IF i > Len(p) THEN depth = 0
    ELSE IF p[i] = BACKSLASH
    THEN /\ i < Len(p)
         /\ p[i + 1] \in ESCAPE_LETTERS
                \/ p[i + 1] \notin (range(48, 58) \cup range(65, 91) \cup range(97, 123))
         /\ re_compile_loop(p, i + 2, depth, TRUE)
    ELSE IF p[i] = LBRACKET
    THEN LET negate == i < Len(p) /\ p[i + 1] = 94
             c == ClassItems(p, IF negate THEN i + 2 ELSE i + 1, {}, 0)
         IN c.ok /\ re_compile_loop(p, c.next, depth, TRUE)
    ELSE IF p[i] = 40
    THEN IF i < Len(p) /\ p[i + 1] = 63
         THEN /\ i + 1 < Len(p)
              /\ p[i + 2] = 58
              /\ re_compile_loop(p, i + 3, depth + 1, FALSE)
         ELSE re_compile_loop(p, i + 1, depth + 1, FALSE)
    ELSE IF p[i] = RPAREN
    THEN depth > 0 /\ re_compile_loop(p, i + 1, depth - 1, TRUE)
    ELSE IF p[i] = BAR THEN re_compile_loop(p, i + 1, depth, FALSE)
    ELSE IF p[i] \in {63, 42, 43} THEN atom /\ re_compile_loop(p, i + 1, depth, FALSE)
    ELSE re_compile_loop(p, i + 1, depth, TRUE)

\* re.compile(pattern): TRUE when it returns, FALSE when it raises re.error.
re_compile(pattern) == re_compile_loop(pattern, 1, 0, FALSE)

\* Optimizer.benchmark_pattern: the outcome and the dict returned. The
\* loop of regex.match calls changes nothing the method returns; the
\* division by iterations raises ZeroDivisionError for iterations = 0, and
\* the except clause catches re.error only.
benchmark_pattern(pattern, test_string, iterations) ==
    IF ~re_compile(pattern)
    THEN [status |-> "ok", result |-> BenchResult(TRUE, Len(pattern), FALSE, 0)]
    ELSE IF iterations = 0
    THEN [status |-> "ZeroDivisionError", result |-> NoResult]
    ELSE [status |-> "ok",
          result |-> BenchResult(FALSE, Len(pattern), TRUE, iterations)]

\* The most iterations asked of benchmark_pattern.
MaxIterations == 2

\* '' and 'a'
TestStrings == {<<>>, <<97>>}

\* optimizer.benchmark_pattern(pattern, test_string, iterations), on the
\* pattern in hand.
Benchmark(test_string, iterations) ==
    /\ LET b == benchmark_pattern(InHand, test_string, iterations)
       IN blast' = BenchCall("benchmark_pattern", InHand, test_string, iterations,
                             b.status, b.result)
    /\ UNCHANGED <<setVars, rangeVars, genVars, optVars, regenVars, threadVars>>

NextBenchmark ==
    \E test_string \in TestStrings : \E iterations \in 0..MaxIterations :
        Benchmark(test_string, iterations)

SpecBenchmark == InitPattern /\ [][NextBenchmark]_vars

\* C26 as claimed: benchmark_pattern never raises for a non-negative
\* iteration count; for a pattern that does not compile the dict has an
\* error, the length of the pattern as pattern_size and iterations 0; for
\* one that compiles it has the length of the pattern as pattern_size and
\* the iterations asked for.
C26_BenchmarkClaim ==
    blast.op = "benchmark_pattern" =>
        /\ blast.status = "ok"
        /\ blast.result.pattern_size = Len(blast.pattern)
        /\ ~re_compile(blast.pattern) =>
               blast.result.error /\ blast.result.iterations = 0
        /\ re_compile(blast.pattern) =>
               ~blast.result.error /\ blast.result.iterations = blast.iterations

(***************************************************************************)
(* The string generator (regen/regex_generator.py)                         *)
(***************************************************************************)

\* re.escape(pattern) of a string
escape(pattern) ==
    join(<<>>, [i \in 1..Len(pattern) |-> re_escape(pattern[i])])

\* RegexGenerator.create_alternation
create_alternation(patterns) ==
    IF patterns = <<>> THEN <<>>
    ELSE IF Len(patterns) = 1 THEN escape(patterns[1])
    ELSE GROUP_OPEN
         \o join(<<BAR>>, [i \in 1..Len(patterns) |-> escape(patterns[i])])
         \o <<RPAREN>>

\* c.isdigit() for a character of the ASCII range.
isdigit(c) == c \in range(48, 58)

\* while not s.startswith(prefix): prefix = prefix[:-1], left when the
\* prefix is empty.
RECURSIVE prefix_while(_, _)
prefix_while(s, prefix) ==
    IF startswith(s, prefix) THEN prefix
    ELSE LET shorter == SubSeq(prefix, 1, Len(prefix) - 1)
         IN IF shorter = <<>> THEN shorter ELSE prefix_while(s, shorter)

\* for s in strings[1:], from the i-th string on.
RECURSIVE prefix_loop(_, _, _)
prefix_loop(strings, i, prefix) ==
    IF i > Len(strings) THEN prefix
    ELSE prefix_loop(strings, i + 1, prefix_while(strings[i], prefix))

\* The list numeric_positions from position i (counted from 0) on: a pair
\* of the position and the sorted characters for every position at which
\* all suffixes have a digit.
RECURSIVE numeric_positions_loop(_, _)
numeric_positions_loop(suffixes, i) ==
    IF i >= Len(suffixes[1]) THEN <<>>
    ELSE LET chars == {suffixes[k][i + 1] : k \in 1..Len(suffixes)}
         IN (IF \A c \in chars : isdigit(c)
             THEN <<[i |-> i, chars |-> sorted(chars)]>>
             ELSE <<>>)
            \o numeric_positions_loop(suffixes, i + 1)

\* for i, chars in numeric_positions, from the k-th pair on, and the text
\* after the last pair; first is suffixes[0].
RECURSIVE result_loop(_, _, _, _, _)
result_loop(first, numeric_positions, k, pos, result) ==
    IF k > Len(numeric_positions)
    THEN IF pos < Len(first)
         THEN result \o escape(SubSeq(first, pos + 1, Len(first)))
         ELSE result
    ELSE LET i == numeric_positions[k].i
             chars == numeric_positions[k].chars
             literal == IF i > pos THEN escape(SubSeq(first, pos + 1, i)) ELSE <<>>
         IN result_loop(first, numeric_positions, k + 1, i + 1,
                        result \o literal \o <<LBRACKET>> \o chars \o <<RBRACKET>>)

\* RegexGenerator.create_optimized_pattern
create_optimized_pattern(strings) ==
    IF strings = <<>> THEN <<>>
    ELSE IF Len(strings) = 1 THEN escape(strings[1])
    ELSE LET prefix == prefix_loop(strings, 2, strings[1])
             suffixes == [k \in 1..Len(strings) |->
                             SubSeq(strings[k], Len(prefix) + 1, Len(strings[k]))]
             numeric_positions == numeric_positions_loop(suffixes, 0)
         IN IF /\ prefix # <<>>
               /\ \A k \in 1..Len(suffixes) : Len(suffixes[k]) = Len(suffixes[1])
               /\ numeric_positions # <<>>
            THEN result_loop(suffixes[1], numeric_positions, 1, 0, escape(prefix))
            ELSE create_alternation(strings)

\* The strings handed to the string generator: '', 'a', '1', '2', 'a1',
\* 'a2', 'a1b', 'a2c', 'a12', 'a22', 'a.1', 'a.2', 'test1a', 'test2b',
\* 'test3c', '2024_Launch' and '2025_Launch'.
Strings ==
    { <<>>, <<97>>, <<49>>, <<50>>, <<97, 49>>, <<97, 50>>,
      <<97, 49, 98>>, <<97, 50, 99>>, <<97, 49, 50>>, <<97, 50, 50>>,
      <<97, 46, 49>>, <<97, 46, 50>>,
      <<116, 101, 115, 116, 49, 97>>, <<116, 101, 115, 116, 50, 98>>,
      <<116, 101, 115, 116, 51, 99>>,
      <<50, 48, 50, 52, 95, 76, 97, 117, 110, 99, 104>>,
      <<50, 48, 50, 53, 95, 76, 97, 117, 110, 99, 104>> }

\* The lists of at most MaxListLen of these strings.
StringLists == Lists(Strings, MaxListLen)

\* A list of strings is taken in hand.
InitStrings ==
    /\ SetStart /\ RangeStart /\ GenStart /\ OptStart
    /\ BenchStart /\ ThreadStart
    /\ plast \in {RegenCall("strings", strings, <<>>) : strings \in StringLists}

\* gen.create_optimized_pattern(strings)
CreateOptimizedPattern ==
    /\ plast' = RegenCall("create_optimized_pattern", plast.strings,
                          create_optimized_pattern(plast.strings))
    /\ UNCHANGED <<setVars, rangeVars, genVars, optVars, benchVars, threadVars>>

\* gen.create_alternation(strings)
CreateAlternation ==
    /\ plast' = RegenCall("create_alternation", plast.strings,
                          create_alternation(plast.strings))
    /\ UNCHANGED <<setVars, rangeVars, genVars, optVars, benchVars, threadVars>>

NextStrings ==
    \/ CreateOptimizedPattern
    \/ CreateAlternation

SpecStrings == InitStrings /\ [][NextStrings]_vars

(***************************************************************************)
(* Properties of create_optimized_pattern                                  *)
(***************************************************************************)

\* The alternatives of the text c of a group from position i on: c split
\* at every bar that is not escaped; cur is the alternative being read.
RECURSIVE Branches(_, _, _)
Branches(c, i, cur) ==
    IF i > Len(c) THEN {cur}
    ELSE IF c[i] = BACKSLASH /\ i < Len(c)
    THEN Branches(c, i + 2, cur \o <<c[i], c[i + 1]>>)
    ELSE IF c[i] = BAR THEN {cur} \cup Branches(c, i + 1, <<>>)
    ELSE Branches(c, i + 1, Append(cur, c[i]))

\* The regular expression engine on a pattern p without bars, read from
\* position i on, against the string s from position j on: an escaped
\* character and a plain character match themselves and a bracket class
\* of plain characters matches each of them; TRUE when p matches s up to
\* its end.
RECURSIVE MatchFrom(_, _, _, _)
MatchFrom(p, i, s, j) ==
    IF i > Len(p) THEN j > Len(s)
    ELSE IF p[i] = BACKSLASH
    THEN /\ i < Len(p) /\ j <= Len(s)
         /\ s[j] = p[i + 1]
         /\ MatchFrom(p, i + 2, s, j + 1)
    ELSE IF p[i] = LBRACKET
    THEN LET e == find(p, <<RBRACKET>>, i + 2)
         IN /\ e # 0 /\ j <= Len(s)
            /\ s[j] \in Elems(SubSeq(p, i + 1, e - 1))
            /\ MatchFrom(p, e + 1, s, j + 1)
    ELSE /\ j <= Len(s)
         /\ s[j] = p[i]
         /\ MatchFrom(p, i + 1, s, j + 1)

\* re.compile('^' + p + '$').match(s) for a pattern the string generator
\* writes: one non-capturing group of alternatives, or a pattern without
\* bars.
FullMatch(p, s) ==
    IF startswith(p, GROUP_OPEN) /\ endswith(p, <<RPAREN>>)
    THEN \E b \in Branches(SubSeq(p, 4, Len(p) - 1), 1, <<>>) : MatchFrom(b, 1, s, 1)
    ELSE MatchFrom(p, 1, s, 1)

\* C27 as claimed: the pattern create_optimized_pattern returns for a
\* non-empty list matches, anchored at both ends, every string of the
\* list.
C27_MatchesInputsClaim ==
    (plast.op = "create_optimized_pattern" /\ plast.strings # <<>>) =>
        \A k \in 1..Len(plast.strings) : FullMatch(plast.result, plast.strings[k])

\* The longest string every string of the list starts with.
CommonPrefix(strings) ==
    LET n == CHOOSE m \in 0..Len(strings[1]) :
                 /\ \A k \in 1..Len(strings) :
                        startswith(strings[k], SubSeq(strings[1], 1, m))
                 /\ \A l \in (m + 1)..Len(strings[1]) :
                        \E k \in 1..Len(strings) :
                            ~startswith(strings[k], SubSeq(strings[1], 1, l))
    IN SubSeq(strings[1], 1, n)

\* What is left of each string after the common prefix.
Suffixes(strings) ==
    [k \in 1..Len(strings) |->
        SubSeq(strings[k], Len(CommonPrefix(strings)) + 1, Len(strings[k]))]

\* The suffixes have one length.
EqualLength(suffixes) ==
    \A k \in 1..Len(suffixes) : Len(suffixes[k]) = Len(suffixes[1])

\* The characters the suffixes of one length have at position i.
CharsAt(suffixes, i) == {suffixes[k][i] : k \in 1..Len(suffixes)}

\* The characters at position i differ between the suffixes.
Varies(suffixes, i) == Cardinality(CharsAt(suffixes, i)) > 1

\* '(?:' + the escaped strings joined with '|' + ')'
PlainAlternative(strings) ==
    GROUP_OPEN
    \o join(<<BAR>>, [k \in 1..Len(strings) |-> escape(strings[k])])
    \o <<RPAREN>>

\* C28 as claimed: create_optimized_pattern returns the plain alternation
\* of the escaped strings whenever the suffixes after the common prefix
\* differ in length or some position of them varies among characters that
\* are not all digits, even if other positions vary among digits only.
C28_FallbackClaim ==
    LET suffixes == Suffixes(plast.strings)
    IN (/\ plast.op = "create_optimized_pattern"
        /\ Len(plast.strings) >= 2
        /\ \/ ~EqualLength(suffixes)
           \/ \E i \in 1..Len(suffixes[1]) :
                  /\ Varies(suffixes, i)
                  /\ \E c \in CharsAt(suffixes, i) : ~isdigit(c)) =>
           plast.result = PlainAlternative(plast.strings)

\* The escaped prefix followed, position by position of the suffixes, by
\* the class of the digits in ascending order where the position varies
\* and by the escaped character where it does not.
Classes(prefix, suffixes) ==
    escape(prefix)
    \o join(<<>>, [i \in 1..Len(suffixes[1]) |->
                      IF Varies(suffixes, i)
                      THEN <<LBRACKET>> \o sorted(CharsAt(suffixes, i)) \o <<RBRACKET>>
                      ELSE re_escape(suffixes[1][i])])

\* C29 as claimed: for two or more strings whose suffixes after the common
\* prefix (empty or not) have one length and vary only among digits,
\* create_optimized_pattern returns the escaped prefix followed by a class
\* of the digits at every position that varies and by the escaped
\* character at every position that does not.
C29_ClassesClaim ==
    LET suffixes == Suffixes(plast.strings)
    IN (/\ plast.op = "create_optimized_pattern"
        /\ Len(plast.strings) >= 2
        /\ EqualLength(suffixes)
        /\ \A i \in 1..Len(suffixes[1]) :
               Varies(suffixes, i) => \A c \in CharsAt(suffixes, i) : isdigit(c)) =>
           plast.result = Classes(CommonPrefix(plast.strings), suffixes)

(***************************************************************************)
(* Threads on one shared RegexGenerator: each thread runs generate_pattern *)
(* line by line, and the steps of the threads interleave. A test of the    *)
(* cache, a read of it and a write to it are one step each.                *)
(***************************************************************************)

\* The calls the threads make: the empty set, a set a-b built by the
\* caller for both priorities, the digits as a set built by the caller and
\* as the generator's own COMMON_RANGES object.
ThreadCalls ==
    { [code_points |-> CodePoints("user", {}), prioritize |-> "size"],
      [code_points |-> CodePoints("user", {97, 98}), prioritize |-> "size"],
      [code_points |-> CodePoints("user", {97, 98}), prioritize |-> "readability"],
      [code_points |-> CodePoints("user", range(48, 58)), prioritize |-> "size"],
      [code_points |-> CodePoints("digit", range(48, 58)), prioritize |-> "size"] }

\* cache_key = (frozenset(code_points), prioritize)
cache_key(call) == <<call.code_points.points, call.prioritize>>

\* The keys of the calls that are under way.
KeysInFlight ==
    {cache_key(thr[t]) : t \in {u \in Threads : thr[u].pc \notin {"idle", "done"}}}

\* Thread t calls generator.generate_pattern(code_points, prioritize): an
\* empty set returns '[]' at once, any other goes on to the cache test.
ThreadBegin(t, call) ==
    /\ thr[t].pc \in {"idle", "done"}
    /\ \/ call.code_points.points = {}
       \/ Cardinality(DOMAIN cache \cup KeysInFlight \cup {cache_key(call)})
              <= MaxCacheEntries
    /\ thr' = [thr EXCEPT ![t] =
                  IF call.code_points.points = {}
                  THEN ThreadCall("done", call.code_points, call.prioritize,
                                  EMPTY_CLASS, "ok")
                  ELSE ThreadCall("lookup", call.code_points, call.prioritize,
                                  <<>>, "ok")]
    /\ UNCHANGED <<setVars, rangeVars, genVars, optVars, benchVars, regenVars>>

\* if cache_key in self._pattern_cache
ThreadLookup(t) ==
    /\ thr[t].pc = "lookup"
    /\ thr' = [thr EXCEPT ![t].pc =
                  IF cache_key(thr[t]) \in DOMAIN cache THEN "hit" ELSE "compute"]
    /\ UNCHANGED <<setVars, rangeVars, genVars, optVars, benchVars, regenVars>>

\* return self._pattern_cache[cache_key]
ThreadHit(t) ==
    /\ thr[t].pc = "hit"
    /\ thr' = [thr EXCEPT ![t] =
                  IF cache_key(thr[t]) \in DOMAIN cache
                  THEN [@ EXCEPT !.pc = "done", !.pattern = cache[cache_key(thr[t])]]
                  ELSE [@ EXCEPT !.pc = "done", !.status = "KeyError"]]
    /\ UNCHANGED <<setVars, rangeVars, genVars, optVars, benchVars, regenVars>>

\* The loop over COMMON_RANGES, and _get_ranges and _ranges_to_pattern
\* when the loop finds nothing: the thread's own pattern.
ThreadCompute(t) ==
    /\ thr[t].pc = "compute"
    /\ LET common == common_loop(thr[t].code_points, 1)
       IN thr' = [thr EXCEPT ![t].pc = "write",
                             ![t].pattern =
                                 IF common # <<>> THEN common[1]
                                 ELSE _ranges_to_pattern(
                                          _get_ranges(thr[t].code_points.points),
                                          thr[t].prioritize)]
    /\ UNCHANGED <<setVars, rangeVars, genVars, optVars, benchVars, regenVars>>

\* self._pattern_cache[cache_key] = pattern; return pattern
ThreadWrite(t) ==
    /\ thr[t].pc = "write"
    /\ cache' = CachePut(cache, cache_key(thr[t]), thr[t].pattern)
    /\ thr' = [thr EXCEPT ![t].pc = "done"]
    /\ UNCHANGED <<setVars, rangeVars, glast, optVars, benchVars, regenVars>>

NextThreads ==
    \E t \in Threads :
        \/ \E call \in ThreadCalls : ThreadBegin(t, call)
        \/ ThreadLookup(t)
        \/ ThreadHit(t)
        \/ ThreadCompute(t)
        \/ ThreadWrite(t)

SpecThreads == Init /\ [][NextThreads]_vars

(***************************************************************************)
(* Properties of concurrent calls                                          *)
(***************************************************************************)

\* The pattern a call returns when it is the only call on a generator.
Sequential(call) ==
    generate_pattern(EmptyCache, call.code_points, call.prioritize).pattern

\* C30 as claimed: under every interleaving each call of generate_pattern
\* ends without error and returns the pattern a sequential call with the
\* same set and priority returns, and an entry of the cache holds that
\* pattern for every call with its key.
C30_ThreadsClaim ==
    \A t \in Threads :
        /\ thr[t].status = "ok"
        /\ thr[t].pc = "done" => thr[t].pattern = Sequential(thr[t])
        /\ (thr[t].pc # "idle" /\ cache_key(thr[t]) \in DOMAIN cache) =>
               cache[cache_key(thr[t])] = Sequential(thr[t])

====
